---- MODULE Spec2Model ----
(***************************************************************************)
(* A model of axum-otlp-honeycomb: the tracing middleware of               *)
(* src/axum_layer.rs (AxumOtelLayer, AxumOtelService, ResponseFuture) and  *)
(* the event-to-log-record bridge of src/event_logger.rs                   *)
(* (AxumOtelEventLogger).                                                  *)
(*                                                                         *)
(* Spec      the life of requests through call / poll / drop, on several   *)
(*           executor threads, with the handler's nested spans and events. *)
(* SpecOutcome one request resolving to any response or error.              *)
(* SpecSpan  make_span as a function of the request and of the layer.      *)
(* SpecFields on_event as a function of the event's fields.                *)
(* SpecNest  nested spans, recordings on them and events, on one thread.   *)
(* SpecInit  init_otlp_layer, init_otlp_log_layer (src/lib.rs) and the     *)
(*           sampler they configure.                                       *)
(* SpecHeader set_tracing_header and the propagator's extraction of what   *)
(*           it writes.                                                    *)
(***************************************************************************)
EXTENDS Integers, Sequences, FiniteSets, TLC

(***************************************************************************)
(* Bounds of the model.                                                    *)
(***************************************************************************)
NumRequests == 2
NumThreads == 2
MaxNest == 1
MaxEvents == 1
MaxHeaders == 2
MaxFields == 2
MaxRecords == 1

Requests == 1..NumRequests
Threads == 1..NumThreads
\* Span ids: a span per request, and the spans the handlers have open.
SpanIds == 1..(NumRequests + NumThreads * MaxNest)

None == [tag |-> "None"]
Some(v) == [tag |-> "Some", v |-> v]

\* tracing field values, by the Visit method that records them; v is the
\* value's text ({}), and for a value recorded through record_debug its
\* Debug text ({:?}).
Empty == [tag |-> "Empty", v |-> ""]
Str(s) == [tag |-> "str", v |-> s]
Bool(s) == [tag |-> "bool", v |-> s]
I64(s) == [tag |-> "i64", v |-> s]
U64(s) == [tag |-> "u64", v |-> s]
F64(s) == [tag |-> "f64", v |-> s]
Dbg(s) == [tag |-> "debug", v |-> s]
\* Option<T> as a field value: Some records the inner value, None nothing.
OptStr(o) == IF o.tag = "Some" THEN Str(o.v) ELSE Empty

(***************************************************************************)
(* http: header names, header values, HeaderMap, Request.                  *)
(***************************************************************************)

UpperToLower ==
    [c \in {"A", "B", "C", "D", "E", "F", "G", "H", "I", "J", "K", "L", "M",
            "N", "O", "P", "Q", "R", "S", "T", "U", "V", "W", "X", "Y", "Z"} |->
        CASE c = "A" -> "a" [] c = "B" -> "b" [] c = "C" -> "c" [] c = "D" -> "d"
          [] c = "E" -> "e" [] c = "F" -> "f" [] c = "G" -> "g" [] c = "H" -> "h"
          [] c = "I" -> "i" [] c = "J" -> "j" [] c = "K" -> "k" [] c = "L" -> "l"
          [] c = "M" -> "m" [] c = "N" -> "n" [] c = "O" -> "o" [] c = "P" -> "p"
          [] c = "Q" -> "q" [] c = "R" -> "r" [] c = "S" -> "s" [] c = "T" -> "t"
          [] c = "U" -> "u" [] c = "V" -> "v" [] c = "W" -> "w" [] c = "X" -> "x"
          [] c = "Y" -> "y" [] c = "Z" -> "z"]

RECURSIVE ToLower(_)
ToLower(s) ==
    IF Len(s) = 0 THEN ""
    ELSE LET c == SubSeq(s, 1, 1)
         IN  (IF c \in DOMAIN UpperToLower THEN UpperToLower[c] ELSE c)
                \o ToLower(SubSeq(s, 2, Len(s)))

\* Whether sub occurs in s.
Contains(s, sub) ==
    \E i \in 1..(Len(s) - Len(sub) + 1) : SubSeq(s, i, i + Len(sub) - 1) = sub

\* http::HeaderName: the name as received, stored lower-cased.
HeaderName(wire_name) == ToLower(wire_name)

\* HeaderName == str: a comparison that ignores ASCII case.
NameEq(name, s) == ToLower(name) = ToLower(s)

\* http::HeaderValue: bytes; to_str() fails unless they are visible ASCII.
HeaderValue(s, visible) == [s |-> s, visible |-> visible]
to_str(v) == IF v.visible THEN Some(v.s) ELSE None

\* HeaderMap as its iteration order: every name once, in the order of its
\* first insertion, each followed by all of its values in insertion order.
RECURSIVE HeaderMapFrom(_)
HeaderMapFrom(wire) ==
    IF wire = <<>> THEN <<>>
    ELSE LET n == HeaderName(Head(wire)[1])
             same == SelectSeq(wire, LAMBDA e : HeaderName(e[1]) = n)
             rest == SelectSeq(wire, LAMBDA e : HeaderName(e[1]) # n)
         IN  [i \in 1..Len(same) |-> <<n, same[i][2]>>] \o HeaderMapFrom(rest)

\* HeaderMap::get: the first value of the name, if any.
HeaderGet(hm, name) ==
    LET hits == SelectSeq(hm, LAMBDA e : e[1] = name)
    IN  IF hits = <<>> THEN None ELSE Some(hits[1][2])

\* A request as the client sends it and the router matches it ...
Wire(method, path, query, uri_host, wire, matched) ==
    [method |-> method, path |-> path, query |-> query, uri_host |-> uri_host,
     wire |-> wire, matched_path |-> matched]

\* ... and the http::Request of it that the server hands to the service.
Request(w) ==
    [method |-> w.method, path |-> w.path, query |-> w.query, uri_host |-> w.uri_host,
     headers |-> HeaderMapFrom(w.wire), matched_path |-> w.matched_path]

(***************************************************************************)
(* src/axum_layer.rs: the attribute extractors.                            *)
(***************************************************************************)

\* A filter that forgets idtoken.
filtered_headers_AuthorizationOnly(req) ==
    SelectSeq(req.headers, LAMBDA e : ~NameEq(e[1], "authorization"))

filtered_headers(req) ==
    SelectSeq(req.headers,
              LAMBDA e : ~NameEq(e[1], "authorization") /\ ~NameEq(e[1], "idtoken"))

\* {:#?} of one entry of a HeaderMap, and of the map.
DebugEntry(e) == "    \"" \o e[1] \o "\": \"" \o e[2].s \o "\",\n"

RECURSIVE DebugEntries(_)
DebugEntries(hm) ==
    IF hm = <<>> THEN "" ELSE DebugEntry(Head(hm)) \o DebugEntries(Tail(hm))

DebugMap(hm) == IF hm = <<>> THEN "{}" ELSE "{\n" \o DebugEntries(hm) \o "}"

headers(req) == DebugMap(filtered_headers(req))

http_route(req) ==
    IF req.matched_path.tag = "Some" THEN req.matched_path.v ELSE ""

http_host(req) ==
    LET h == HeaderGet(req.headers, "host")
        r == IF h.tag = "None" THEN req.uri_host ELSE to_str(h.v)
    IN  IF r.tag = "Some" THEN r.v ELSE ""

user_agent(req) ==
    LET h == HeaderGet(req.headers, "user-agent")
    IN  IF h.tag = "None" THEN ""
        ELSE IF to_str(h.v).tag = "Some" THEN to_str(h.v).v ELSE ""

(***************************************************************************)
(* The W3C trace-context propagator registered by init_otlp_layer.         *)
(***************************************************************************)

HexDigits == {"0", "1", "2", "3", "4", "5", "6", "7", "8", "9",
              "a", "b", "c", "d", "e", "f"}

RECURSIVE Split(_, _)
Split(s, sep) ==
    LET RECURSIVE First(_)
        First(i) == IF i > Len(s) THEN 0
                    ELSE IF SubSeq(s, i, i) = sep THEN i ELSE First(i + 1)
        k == First(1)
    IN  IF k = 0 THEN <<s>>
        ELSE <<SubSeq(s, 1, k - 1)>> \o Split(SubSeq(s, k + 1, Len(s)), sep)

IsHex(s, n) ==
    /\ Len(s) = n
    /\ \A i \in 1..n : SubSeq(s, i, i) \in HexDigits

AllZero(s) == \A i \in 1..Len(s) : SubSeq(s, i, i) = "0"

NoContext == [has_span |-> FALSE, trace_id |-> "", span_id |-> "", sampled |-> FALSE]

\* TraceContextPropagator::extract on a carrier (a map from header name to
\* text): the remote span context of a well-formed traceparent, and the
\* context without a span otherwise.
PropagatorExtract(carrier) ==
    IF "traceparent" \notin DOMAIN carrier THEN NoContext
    ELSE LET parts == Split(carrier["traceparent"], "-")
         IN  IF /\ Len(parts) = 4
                /\ IsHex(parts[1], 2) /\ parts[1] = "00"
                /\ IsHex(parts[2], 32) /\ ~AllZero(parts[2])
                /\ IsHex(parts[3], 16) /\ ~AllZero(parts[3])
                /\ IsHex(parts[4], 2) /\ parts[4] \in {"00", "01"}
             THEN [has_span |-> TRUE, trace_id |-> parts[2], span_id |-> parts[3],
                   sampled |-> parts[4] = "01"]
             ELSE NoContext

\* The carrier built by extract_context: one entry per header name, a later
\* value of the same name replacing an earlier one, undecodable text as "".
RECURSIVE CarrierOf(_)
CarrierOf(hm) ==
    IF hm = <<>> THEN <<>>
    ELSE LET e == hm[Len(hm)]
             before == CarrierOf(SubSeq(hm, 1, Len(hm) - 1))
             text == IF to_str(e[2]).tag = "Some" THEN to_str(e[2]).v ELSE ""
         IN  [k \in (DOMAIN before) \cup {e[1]} |->
                 IF k = e[1] THEN text ELSE before[k]]

extract_context(req) == PropagatorExtract(CarrierOf(req.headers))

(***************************************************************************)
(* src/axum_layer.rs: make_span. A span value is the macro's metadata, its *)
(* fields in declaration order, and the parent context set on it (None     *)
(* when set_parent is not called).                                         *)
(***************************************************************************)
HttpSpanMeta ==
    [name |-> "HTTP request", module |-> Some("axum_otlp_honeycomb::axum_layer"),
     file |-> Some("src/axum_layer.rs"), line |-> Some(105)]

\* The fields of the info_span! of make_span, in the order it declares them.
HttpSpanFields(req) ==
    LET route == http_route(req)
        method == req.method
    IN  << <<"http.request.method", Str(method)>>,
           <<"http.route", Str(route)>>,
           <<"server.address", Str(http_host(req))>>,
           <<"http.client.address", Empty>>,
           <<"http.headers", Str(headers(req))>>,
           <<"user_agent.original", Str(user_agent(req))>>,
           <<"http.response.status_code", Empty>>,
           <<"url.path", Str(req.path)>>,
           <<"url.query", OptStr(req.query)>>,
           <<"otel.name", Str(method \o " " \o route)>>,
           <<"otel.kind", Dbg("Server")>>,
           <<"otel.status_code", Empty>>,
           <<"trace_id", Empty>>,
           <<"request_id", Empty>>,
           <<"exception.message", Empty>>,
           <<"user.id", Str("-")>> >>

\* A make_span that sets the extracted parent whatever the layer.
make_span_AlwaysExtracts(req, extract_parent) ==
    [meta |-> HttpSpanMeta, fields |-> HttpSpanFields(req),
     parent_cx |-> Some(extract_context(req))]

make_span(req, extract_parent) ==
    [meta |-> HttpSpanMeta, fields |-> HttpSpanFields(req),
     parent_cx |-> IF extract_parent THEN Some(extract_context(req)) ELSE None]

(***************************************************************************)
(* src/event_logger.rs: the span description stored when a span opens.     *)
(***************************************************************************)
UnwrapOr(o, d) == IF o.tag = "Some" THEN o.v ELSE d

\* SpanVisitor: what one recorded field appends to the description.
SpanVisitor(name, val) ==
    CASE val.tag = "str" -> ", " \o name \o ": '" \o val.v \o "'"
      [] val.tag \in {"bool", "f64", "i64"} -> ", " \o name \o ": '" \o val.v \o "'"
      [] OTHER -> ", " \o name \o ": '" \o val.v \o "'"

\* attrs.values().record(visitor): every field that has a value, in order.
RECURSIVE RecordSpanValues(_)
RecordSpanValues(fields) ==
    IF fields = <<>> THEN ""
    ELSE (IF Head(fields)[2].tag = "Empty" THEN ""
          ELSE SpanVisitor(Head(fields)[1], Head(fields)[2]))
         \o RecordSpanValues(Tail(fields))

\* on_new_span: the ExtensionValues inserted in the span's extensions.
on_new_span(meta, fields) ==
    LET location == UnwrapOr(meta.file, "UNKNOWN") \o ":"
                        \o ToString(UnwrapOr(meta.line, 0))
        span_str == "Name: '" \o meta.name \o "', { module: '"
                        \o UnwrapOr(meta.module, "") \o "', location: '"
                        \o location \o "'"
                        \o RecordSpanValues(fields) \o " }"
    IN  [span_str |-> span_str, location |-> location]

(***************************************************************************)
(* src/event_logger.rs: the log record built for an event.                 *)
(***************************************************************************)
AnyValue(ty, text) == [ty |-> ty, v |-> text]

severity_of_level(level) ==
    CASE level = "TRACE" -> "Trace"
      [] level = "DEBUG" -> "Debug"
      [] level = "INFO" -> "Info"
      [] level = "WARN" -> "Warn"
      [] level = "ERROR" -> "Error"

\* EventVisitor: one field of the event recorded on the log record.
EventVisitor(log_record, name, val) ==
    CASE val.tag = "str" ->
            [log_record EXCEPT !.attributes = Append(@, <<name, AnyValue("String", val.v)>>)]
      [] val.tag = "bool" ->
            [log_record EXCEPT !.attributes = Append(@, <<name, AnyValue("Boolean", val.v)>>)]
      [] val.tag = "f64" ->
            [log_record EXCEPT !.attributes = Append(@, <<name, AnyValue("Double", val.v)>>)]
      [] val.tag = "i64" ->
            [log_record EXCEPT !.attributes = Append(@, <<name, AnyValue("Int", val.v)>>)]
      [] OTHER ->
            IF name = "message"
            THEN [log_record EXCEPT !.body = Some(AnyValue("String", val.v))]
            ELSE [log_record EXCEPT !.attributes = Append(@, <<name, AnyValue("String", val.v)>>)]

\* event.record(visitor): every field that has a value, in order.
RECURSIVE RecordEventFields(_, _)
RecordEventFields(log_record, fields) ==
    IF fields = <<>> THEN log_record
    ELSE RecordEventFields(
            IF Head(fields)[2].tag = "Empty" THEN log_record
            ELSE EventVisitor(log_record, Head(fields)[1], Head(fields)[2]),
            Tail(fields))

\* Attributes whose description is rendered anew from the span's fields
\* and what was recorded on it since.
SpanAttributes_Rerendered(i, span) ==
    << <<"span." \o ToString(i),
         AnyValue("String", on_new_span(span.meta, span.fields \o span.recs).span_str)>>,
       <<"span." \o ToString(i) \o ".location", AnyValue("String", span.ext.v.location)>>,
       <<"span." \o ToString(i) \o ".name", AnyValue("String", span.meta.name)>> >>

\* The attributes added for the span at position i of the scope.
SpanAttributes(i, span) ==
    (IF span.ext.tag = "Some"
     THEN << <<"span." \o ToString(i), AnyValue("String", span.ext.v.span_str)>>,
             <<"span." \o ToString(i) \o ".location",
               AnyValue("String", span.ext.v.location)>> >>
     ELSE <<>>)
    \o << <<"span." \o ToString(i) \o ".name", AnyValue("String", span.meta.name)>> >>

RECURSIVE LogSpans(_, _)
LogSpans(scope, i) ==
    IF i >= Len(scope) THEN <<>>
    ELSE SpanAttributes(i, scope[i + 1]) \o LogSpans(scope, i + 1)

\* on_event: the record submitted to the logger; scope is the event's span
\* scope from the root (empty when the event has no span).
on_event(event, scope) ==
    LET meta == event.meta
        created == [target |-> meta.target, event_name |-> meta.name,
                    severity_number |-> severity_of_level(meta.level),
                    severity_text |-> meta.level,
                    body |-> None,
                    attributes |-> << <<"location",
                        AnyValue("String", UnwrapOr(meta.file, "UNKNOWN") \o ":"
                                    \o ToString(UnwrapOr(meta.line, 0)))>> >>]
        visited == RecordEventFields(created, event.fields)
    IN  [visited EXCEPT !.attributes = @ \o LogSpans(scope, 0)]

(***************************************************************************)
(* src/axum_layer.rs: the outcome recorded on the span. A span's records   *)
(* are the calls of Span::record made on it, in order.                     *)
(***************************************************************************)
Pending == [tag |-> "Pending"]
Ok(status) == [tag |-> "Ok", status |-> status]
\* An error with its chain of messages: its own, its source's, and so on.
Err(chain) == [tag |-> "Err", chain |-> chain]

\* A test for every status from 500 up.
is_server_error_AtLeast500(status) == status >= 500

is_server_error(status) == 600 > status /\ status >= 500

update_span_from_response(recs, response) ==
    LET status == response.status
        recorded == Append(recs, <<"http.response.status_code", U64(ToString(status))>>)
    IN  IF is_server_error(status)
        THEN Append(recorded, <<"otel.status_code", Str("ERROR")>>)
        ELSE recorded

\* A recording that also gives an error the status code 500.
update_span_from_error_AlsoStatus500(recs, error) ==
    LET status == Append(recs, <<"otel.status_code", Str("ERROR")>>)
        code == Append(status, <<"http.response.status_code", U64("500")>>)
        message == Append(code, <<"exception.message", Str(error.chain[1])>>)
    IN  IF Len(error.chain) >= 2
        THEN Append(message, <<"exception.message", Str(error.chain[2])>>)
        ELSE message

\* A recording of the error's own message only.
update_span_from_error_TopLevelOnly(recs, error) ==
    Append(Append(recs, <<"otel.status_code", Str("ERROR")>>),
           <<"exception.message", Str(error.chain[1])>>)

update_span_from_error(recs, error) ==
    LET status == Append(recs, <<"otel.status_code", Str("ERROR")>>)
        message == Append(status, <<"exception.message", Str(error.chain[1])>>)
    IN  IF Len(error.chain) >= 2
        THEN Append(message, <<"exception.message", Str(error.chain[2])>>)
        ELSE message

update_span_from_response_or_error(recs, response) ==
    IF response.tag = "Ok"
    THEN update_span_from_response(recs, response)
    ELSE update_span_from_error(recs, response)

\* A poll that returns an error at once, before the span is updated.
ResponseFuturePoll_ErrorSkipsUpdate(recs, result) ==
    IF result.tag = "Ok"
    THEN [ret |-> result, recs |-> update_span_from_response(recs, result)]
    ELSE [ret |-> result, recs |-> recs]

\* A poll that answers an error of the handler with a response of its own.
ResponseFuturePoll_ErrorBecomesResponse(recs, result) ==
    IF result.tag = "Pending"
    THEN [ret |-> Pending, recs |-> recs]
    ELSE [ret |-> IF result.tag = "Err" THEN Ok(500) ELSE result,
          recs |-> update_span_from_response_or_error(recs, result)]

\* ResponseFuture::poll, given what the inner future's poll returned: the
\* value returned and the span's records afterwards.
ResponseFuturePoll(recs, result) ==
    IF result.tag = "Pending"
    THEN [ret |-> Pending, recs |-> recs]
    ELSE [ret |-> result, recs |-> update_span_from_response_or_error(recs, result)]

\* AxumOtelService::poll_ready, given what the inner service's returned.
poll_ready(inner_ready) == inner_ready

\* The value of a field of a span: the last one recorded, else the one
\* given when the span was made.
RECURSIVE LastOf(_, _, _)
LastOf(pairs, key, default) ==
    IF pairs = <<>> THEN default
    ELSE IF pairs[Len(pairs)][1] = key THEN pairs[Len(pairs)][2]
    ELSE LastOf(SubSeq(pairs, 1, Len(pairs) - 1), key, default)

FieldValue(span, key) == LastOf(span.recs, key, LastOf(span.fields, key, Empty))

(***************************************************************************)
(* src/lib.rs: the exporters built from the process environment, and the   *)
(* sampler of the tracer provider.                                         *)
(***************************************************************************)
HexChars == <<"0", "1", "2", "3", "4", "5", "6", "7", "8", "9",
              "a", "b", "c", "d", "e", "f">>
\* The hexadecimal digit of a value in 0..15, and the value of a digit.
HexDigit(n) == HexChars[n + 1]
HexValue(c) == CHOOSE n \in 0..15 : HexChars[n + 1] = c

\* The environment variables the documentation of init_otlp_layer names (and
\* the one the OTLP exporter reads its request headers from), each set or
\* not, with the sample rate the application passes, in eighths.
Environment(api_key, endpoint, otlp_headers, sample_rate) ==
    [HONEYCOMB_API_KEY |-> api_key,
     OTEL_EXPORTER_OTLP_ENDPOINT |-> endpoint,
     OTEL_EXPORTER_OTLP_HEADERS |-> otlp_headers,
     sample_rate |-> sample_rate]

RECURSIVE TrimEndSlash(_)
TrimEndSlash(s) ==
    IF Len(s) > 0 /\ SubSeq(s, Len(s), Len(s)) = "/"
    THEN TrimEndSlash(SubSeq(s, 1, Len(s) - 1)) ELSE s

\* Whether a text parses as an http::Uri: no blank in it, and an IPv6
\* bracket that opens also closes.
ParseUri(s) == ~Contains(s, " ") /\ (Contains(s, "[") => Contains(s, "]"))

\* Builder::with_http().build() of an OTLP exporter for a signal: the
\* endpoint is the one of the environment, or the exporter's default, with
\* the signal's path; the build fails when that is not a Uri. The headers
\* are the ones of OTEL_EXPORTER_OTLP_HEADERS. No other variable is read.
ExporterBuild(environment, signal_path) ==
    LET base == UnwrapOr(environment.OTEL_EXPORTER_OTLP_ENDPOINT, "http://localhost:4318")
        endpoint == TrimEndSlash(base) \o "/" \o signal_path
    IN  IF ParseUri(endpoint)
        THEN [tag |-> "Built", endpoint |-> endpoint,
              headers |-> environment.OTEL_EXPORTER_OTLP_HEADERS]
        ELSE [tag |-> "BuildError", endpoint |-> endpoint]

\* The samplers of opentelemetry_sdk that the layer composes.
TraceIdRatioBased(rate) == [kind |-> "TraceIdRatioBased", rate |-> rate]
ParentBased(delegate) == [kind |-> "ParentBased", delegate |-> delegate]

\* A sampler that does not look at the parent.
Sampler_RatioOnly(sample_rate) == TraceIdRatioBased(sample_rate)

\* The sampler init_otlp_layer gives the tracer provider.
Sampler(sample_rate) == ParentBased(TraceIdRatioBased(sample_rate))

\* Sampler::should_sample. ParentBased follows the sampled flag of a parent
\* that has a span and asks its delegate otherwise. TraceIdRatioBased
\* samples always from rate 1.0 up, and else when the low 64 bits of the
\* trace id, shifted right by one, are below rate.max(0.0) * 2^63: for a
\* rate of n eighths that is the upper three bits of the 17th hexadecimal
\* digit of the trace id being below n.
RECURSIVE should_sample(_, _, _)
should_sample(sampler, parent_cx, trace_id) ==
    IF sampler.kind = "ParentBased"
    THEN IF parent_cx.has_span THEN parent_cx.sampled
         ELSE should_sample(sampler.delegate, parent_cx, trace_id)
    ELSE \/ sampler.rate >= 8
         \/ HexValue(SubSeq(trace_id, 17, 17)) \div 2
                < (IF sampler.rate > 0 THEN sampler.rate ELSE 0)

\* init_otlp_layer: the layer with its tracer, or None.
init_otlp_layer(environment, sample_rate) ==
    LET exporter == ExporterBuild(environment, "v1/traces")
    IN  IF exporter.tag = "Built"
        THEN Some([exporter |-> exporter, sampler |-> Sampler(sample_rate),
                   tracer |-> "axum-otlp-honeycomb", with_level |-> TRUE])
        ELSE None

\* init_otlp_log_layer: the layer, or the panic of unwrap().
init_otlp_log_layer(environment) ==
    LET exporter == ExporterBuild(environment, "v1/logs")
    IN  IF exporter.tag = "Built"
        THEN [tag |-> "Layer", exporter |-> exporter]
        ELSE [tag |-> "Panic", exporter |-> exporter]

(***************************************************************************)
(* The state.                                                              *)
(***************************************************************************)
VARIABLES
    extract_parent, \* AxumOtelLayer.extract_parent, copied into the service
    ready,          \* the last poll_ready: what inner returned, what it returned
    pc,             \* per request: where its call / ResponseFuture stands
    fut,            \* per request: ResponseFuture.span (a span id, 0 before call)
    inner,          \* per request: what the last poll of ResponseFuture.inner returned
    ret,            \* per request: what the last ResponseFuture::poll returned
    spans,          \* the subscriber's span registry, indexed by span id
    stack,          \* per thread: the entered spans, the current one last
    running,        \* per thread: the request whose call / poll it executes, or 0
    sink,           \* the records submitted to the logger, in order
    request,        \* SpecSpan: the request given to make_span
    made,           \* SpecSpan: the span made from it
    event,          \* SpecFields: the event given to on_event
    emitted,        \* SpecFields: the record emitted for it
    fired,          \* the events fired since the exporter last took the records
    env,            \* SpecInit: the process environment and the sample rate
    otlp_layer,     \* SpecInit: what init_otlp_layer returned
    log_layer,      \* SpecInit: what init_otlp_log_layer returned, or its panic
    decision,       \* SpecInit: the last sampling decision of the layer's sampler
    span_context,   \* SpecHeader: the span context given to set_tracing_header
    response_headers \* SpecHeader: the headers given to it, and as it leaves them

vars == <<extract_parent, ready, pc, fut, inner, ret, spans, stack, running, sink,
          request, made, event, emitted, fired, env, otlp_layer, log_layer, decision,
          span_context, response_headers>>

lifeVars == <<ready, pc, fut, inner, ret, spans, stack, running, sink>>
initVars == <<env, otlp_layer, log_layer, decision>>
headerVars == <<span_context, response_headers>>

NotPolled == [tag |-> "NotPolled"]

\* The two constructors of the layer.
opentelemetry_tracing_layer == [extract_parent |-> TRUE]
opentelemetry_tracing_layer_without_parent == [extract_parent |-> FALSE]
Layers == {opentelemetry_tracing_layer, opentelemetry_tracing_layer_without_parent}

NotCalled == [tag |-> "NotCalled"]

\* Nothing initialised, for the specifications that do not initialise.
InitNoConfig ==
    /\ env = Environment(None, None, None, 8)
    /\ otlp_layer = NotCalled /\ log_layer = NotCalled /\ decision = None

\* No header written, for the specifications that write none.
InitNoHeader ==
    /\ span_context = [trace_id |-> <<>>, span_id |-> <<>>, trace_flags |-> 0]
    /\ response_headers = [given |-> <<>>, left |-> None]

(***************************************************************************)
(* Inputs of Spec.                                                         *)
(***************************************************************************)
TraceParentA == "00-0af7651916cd43dd8448eb211c80319c-b7ad6b7169203331-01"

ReqA == Wire("GET", "/users/7", Some("page=2"), None,
                << <<"Host", HeaderValue("example.com", TRUE)>>,
                   <<"Authorization", HeaderValue("secret", TRUE)>>,
                   <<"traceparent", HeaderValue(TraceParentA, TRUE)>> >>,
                Some("/users/{id}"))
ReqB == Wire("POST", "/", None, Some("localhost"), <<>>, None)
\* The request of the r-th call.
RequestOf(r) ==
    IF r = 1 THEN ReqA
    ELSE IF r = 2 THEN ReqB
    ELSE Wire("PUT", "/items/" \o ToString(r), None, None, <<>>, Some("/items/{id}"))

\* Every http::StatusCode.
Statuses == 100..999
ErrChains == {<<"top">>, <<"top", "cause">>, <<"top", "cause", "root">>}
InnerResults == {Pending} \cup {Ok(st) : st \in Statuses} \cup {Err(c) : c \in ErrChains}
\* What the handlers of Spec resolve to.
HandlerResults == {Pending, Ok(200), Ok(503), Err(<<"top", "cause">>)}

ReadyOk == [tag |-> "ReadyOk"]
ReadyErr(chain) == [tag |-> "ReadyErr", chain |-> chain]
InnerReadiness == {Pending, ReadyOk, ReadyErr(<<"overloaded">>)}

HandlerSpanMeta ==
    [name |-> "handler", module |-> Some("app::routes"),
     file |-> Some("src/routes.rs"), line |-> Some(42)]
HandlerSpanFields == << <<"item", Str("x")>>, <<"n", I64("5")>> >>

EventMeta(level) ==
    [target |-> "app::routes", name |-> "event src/routes.rs:50", level |-> level,
     file |-> Some("src/routes.rs"), line |-> Some(50)]
HandlerEvents ==
    {[meta |-> EventMeta("INFO"),
      fields |-> << <<"message", Dbg("x")>>, <<"count", I64("5")>> >>]}

(***************************************************************************)
(* The span registry and the threads' span stacks (tracing).               *)
(***************************************************************************)
Current(t) == IF stack[t] = <<>> THEN 0 ELSE stack[t][Len(stack[t])]

\* A slot of the registry that holds no span.
FreeSlot ==
    [state |-> "free", meta |-> [name |-> "", module |-> None, file |-> None, line |-> None],
     fields |-> <<>>, parent_cx |-> None, parent |-> 0, owner |-> 0, ext |-> None,
     recs |-> <<>>]

\* The id the registry gives the next span.
FreeId == CHOOSE id \in SpanIds :
            /\ spans[id].state = "free"
            /\ \A j \in SpanIds : j < id => spans[j].state # "free"

\* Span::new: the registry's entry of a new span, its parent the current
\* span, with what the layer's on_new_span stored in its extensions.
NewSpan(value, parent, owner) ==
    [state |-> "open", meta |-> value.meta, fields |-> value.fields,
     parent_cx |-> value.parent_cx, parent |-> parent, owner |-> owner,
     ext |-> Some(on_new_span(value.meta, value.fields)),
     recs |-> <<>>]

\* A scope walked from the span itself up to the root.
RECURSIVE Scope_FromLeaf(_)
Scope_FromLeaf(id) ==
    IF id = 0 THEN <<>> ELSE <<spans[id]>> \o Scope_FromLeaf(spans[id].parent)

\* The scope of span id: its ancestors from the root, and itself last.
RECURSIVE Scope(_)
Scope(id) == IF id = 0 THEN <<>> ELSE Append(Scope(spans[id].parent), spans[id])

\* The executor's threads are interchangeable and the requests are numbered
\* in the order of their calls: work goes to the first idle thread.
FirstIdle(t) == running[t] = 0 /\ \A u \in Threads : u < t => running[u] # 0
NextCall(r) == pc[r] = "new" /\ \A q \in Requests : q < r => pc[q] # "new"

\* An enter on one stack shared by all threads.
Enter_SharedStack(t, id) == [stack EXCEPT ![1] = Append(@, id)]

Enter(t, id) == [stack EXCEPT ![t] = Append(@, id)]
Exit(t) == [stack EXCEPT ![t] = SubSeq(@, 1, Len(@) - 1)]

(***************************************************************************)
(* Spec: the life of the requests.                                         *)
(***************************************************************************)
InitLife ==
    /\ ready = [inner |-> NotPolled, ret |-> NotPolled]
    /\ pc = [r \in Requests |-> "new"]
    /\ fut = [r \in Requests |-> 0]
    /\ inner = [r \in Requests |-> NotPolled]
    /\ ret = [r \in Requests |-> NotPolled]
    /\ spans = [id \in SpanIds |-> FreeSlot]
    /\ stack = [t \in Threads |-> <<>>]
    /\ running = [t \in Threads |-> 0]
    /\ sink = <<>>
    /\ fired = 0

Init ==
    /\ \E l \in Layers : extract_parent = l.extract_parent
    /\ InitLife
    /\ request = ReqB /\ made = None
    /\ event = [meta |-> EventMeta("INFO"), fields |-> <<>>] /\ emitted = None
    /\ InitNoConfig /\ InitNoHeader

\* Threads and requests at rest, for the specifications that use neither.
InitIdle == InitLife /\ extract_parent = TRUE

\* AxumOtelService::poll_ready.
PollReady(i) ==
    /\ \E r \in Requests : pc[r] = "new"
    /\ ready' = [inner |-> i, ret |-> poll_ready(i)]
    /\ UNCHANGED <<extract_parent, pc, fut, inner, ret, spans, stack, running, sink,
                   request, made, event, emitted,
                   fired, initVars, headerVars>>

\* AxumOtelService::call up to the call of the inner service: the span is
\* made and entered.
Call(t, r) ==
    /\ FirstIdle(t) /\ NextCall(r)
    /\ ready.ret = ReadyOk
    /\ LET id == FreeId
       IN  /\ spans' = [spans EXCEPT
                            ![id] = NewSpan(make_span(Request(RequestOf(r)), extract_parent),
                                           Current(t), r)]
           /\ fut' = [fut EXCEPT ![r] = id]
           /\ stack' = Enter(t, id)
    /\ running' = [running EXCEPT ![t] = r]
    /\ pc' = [pc EXCEPT ![r] = "calling"]
    /\ ready' = [inner |-> NotPolled, ret |-> NotPolled]
    /\ UNCHANGED <<extract_parent, inner, ret, sink, request, made, event, emitted,
                   fired, initVars, headerVars>>

\* A return from call that leaves the span entered.
CallReturn_KeepsEntered(t) ==
    /\ running[t] # 0 /\ pc[running[t]] = "calling"
    /\ Current(t) = fut[running[t]]
    /\ pc' = [pc EXCEPT ![running[t]] = "suspended"]
    /\ running' = [running EXCEPT ![t] = 0]
    /\ UNCHANGED <<extract_parent, ready, fut, inner, ret, spans, stack, sink,
                   request, made, event, emitted, fired, initVars, headerVars>>

\* ... and from the return of inner.call: the guard is dropped and the
\* ResponseFuture returned.
CallReturn(t) ==
    /\ running[t] # 0 /\ pc[running[t]] = "calling"
    /\ Current(t) = fut[running[t]]
    /\ stack' = Exit(t)
    /\ pc' = [pc EXCEPT ![running[t]] = "suspended"]
    /\ running' = [running EXCEPT ![t] = 0]
    /\ UNCHANGED <<extract_parent, ready, fut, inner, ret, spans, sink,
                   request, made, event, emitted,
                   fired, initVars, headerVars>>

\* A poll that does not enter the span.
Poll_WithoutEnter(t, r) ==
    /\ FirstIdle(t) /\ pc[r] = "suspended"
    /\ running' = [running EXCEPT ![t] = r]
    /\ pc' = [pc EXCEPT ![r] = "polling"]
    /\ UNCHANGED <<extract_parent, ready, fut, inner, ret, spans, stack, sink,
                   request, made, event, emitted,
                   fired, initVars, headerVars>>

\* ResponseFuture::poll up to the poll of the inner future: the span is
\* entered.
Poll(t, r) ==
    /\ FirstIdle(t) /\ pc[r] = "suspended"
    /\ stack' = Enter(t, fut[r])
    /\ running' = [running EXCEPT ![t] = r]
    /\ pc' = [pc EXCEPT ![r] = "polling"]
    /\ UNCHANGED <<extract_parent, ready, fut, inner, ret, spans, sink,
                   request, made, event, emitted,
                   fired, initVars, headerVars>>

\* ... and from the return of the inner future's poll with result.
PollReturn(t, result) ==
    /\ running[t] # 0 /\ pc[running[t]] = "polling"
    /\ Current(t) = fut[running[t]]
    /\ LET r == running[t]
           id == fut[r]
           out == ResponseFuturePoll(spans[id].recs, result)
       IN  /\ inner' = [inner EXCEPT ![r] = result]
           /\ ret' = [ret EXCEPT ![r] = out.ret]
           /\ spans' = [spans EXCEPT ![id].recs = out.recs]
           /\ pc' = [pc EXCEPT ![r] = IF out.ret = Pending THEN "suspended" ELSE "done"]
    /\ stack' = Exit(t)
    /\ running' = [running EXCEPT ![t] = 0]
    /\ UNCHANGED <<extract_parent, ready, fut, sink, request, made, event, emitted,
                   fired, initVars, headerVars>>

\* A drop that marks the span of an unfinished request as failed.
Drop_RecordsCancellation(r) ==
    /\ pc[r] \in {"suspended", "done"}
    /\ pc' = [pc EXCEPT ![r] = "dropped"]
    /\ spans' = [spans EXCEPT
                    ![fut[r]].state = "closed",
                    ![fut[r]].recs = IF pc[r] = "suspended"
                                     THEN Append(@, <<"otel.status_code", Str("ERROR")>>)
                                     ELSE @]
    /\ UNCHANGED <<extract_parent, ready, fut, inner, ret, stack, running, sink,
                   request, made, event, emitted,
                   fired, initVars, headerVars>>

\* The ResponseFuture is dropped, completed or not: its span closes (the
\* entry is kept, as closed, for what was recorded on it).
Drop(r) ==
    /\ pc[r] \in {"suspended", "done"}
    /\ pc' = [pc EXCEPT ![r] = "dropped"]
    /\ spans' = [spans EXCEPT ![fut[r]].state = "closed"]
    /\ UNCHANGED <<extract_parent, ready, fut, inner, ret, stack, running, sink,
                   request, made, event, emitted,
                   fired, initVars, headerVars>>

\* An event fires on thread t: AxumOtelEventLogger::on_event builds its
\* record and submits it to the logger.
\* An on_event that submits a record only for an event inside a span.
Event_SkipsOutsideSpan(t, ev) ==
    /\ Len(sink) < MaxEvents
    /\ fired' = fired + 1
    /\ sink' = IF Current(t) = 0 THEN sink
               ELSE Append(sink, on_event(ev, Scope(Current(t))))
    /\ UNCHANGED <<extract_parent, ready, pc, fut, inner, ret, spans, stack, running,
                   request, made, event, emitted, initVars, headerVars>>

Event(t, ev) ==
    /\ Len(sink) < MaxEvents
    /\ fired' = fired + 1
    /\ sink' = Append(sink, on_event(ev, Scope(Current(t))))
    /\ UNCHANGED <<extract_parent, ready, pc, fut, inner, ret, spans, stack, running,
                   request, made, event, emitted, initVars, headerVars>>

\* The logger's exporter takes the records submitted so far.
Export ==
    /\ sink # <<>>
    /\ sink' = <<>>
    /\ fired' = 0
    /\ UNCHANGED <<extract_parent, ready, pc, fut, inner, ret, spans, stack, running,
                   request, made, event, emitted, initVars, headerVars>>

Next ==
    \/ \E i \in InnerReadiness : PollReady(i)
    \/ \E t \in Threads, r \in Requests : Call(t, r)
    \/ \E t \in Threads : CallReturn(t)
    \/ \E t \in Threads, r \in Requests : Poll(t, r)
    \/ \E t \in Threads, result \in HandlerResults : PollReturn(t, result)
    \/ \E r \in Requests : Drop(r)
    \/ \E t \in Threads, ev \in HandlerEvents : Event(t, ev)
    \/ Export

Spec == Init /\ [][Next]_vars

(***************************************************************************)
(* SpecOutcome: one request on one thread, resolving to any result.        *)
(***************************************************************************)
NextOutcome ==
    \/ \E i \in InnerReadiness : PollReady(i)
    \/ Call(1, 1)
    \/ CallReturn(1)
    \/ Poll(1, 1)
    \/ \E result \in InnerResults : PollReturn(1, result)
    \/ Drop(1)

SpecOutcome == Init /\ [][NextOutcome]_vars

(***************************************************************************)
(* SpecSpan: make_span on the request of a call, for either layer.         *)
(***************************************************************************)
TraceParent(version, trace_id, span_id, flags) ==
    version \o "-" \o trace_id \o "-" \o span_id \o "-" \o flags

ValidTraceIds == {"0af7651916cd43dd8448eb211c80319c", "00000000000000000000000000000001"}
ValidSpanIds == {"b7ad6b7169203331"}
ValidTraceParents ==
    {TraceParent("00", tid, sid, fl) :
        tid \in ValidTraceIds, sid \in ValidSpanIds, fl \in {"00", "01"}}
InvalidTraceParents ==
    {"", "garbage",
     TraceParent("00", "00000000000000000000000000000000", "b7ad6b7169203331", "01"),
     TraceParent("00", "0af7651916cd43dd8448eb211c80319c", "0000000000000000", "01"),
     TraceParent("00", "0AF7651916CD43DD8448EB211C80319C", "b7ad6b7169203331", "01"),
     TraceParent("00", "0af7651916cd43dd", "b7ad6b7169203331", "01")}

SecretHeaders ==
    {<<n, HeaderValue("Bearer-s3cr3t", TRUE)>> :
        n \in {"authorization", "Authorization", "AUTHORIZATION"}}
    \cup {<<n, HeaderValue("eyJ-idt0ken", TRUE)>> : n \in {"idtoken", "IdToken", "IDTOKEN"}}
PlainHeaders ==
    {<<"Host", HeaderValue("example.com", TRUE)>>,
     <<"host", HeaderValue("ex\\xe4mple", FALSE)>>,
     <<"User-Agent", HeaderValue("curl/8.0", TRUE)>>,
     <<"Proxy-Authorization", HeaderValue("Basic-pr0xy", TRUE)>>,
     <<"accept", HeaderValue("text/html", TRUE)>>}
TraceHeaders ==
    {<<"traceparent", HeaderValue(tp, TRUE)>> :
        tp \in ValidTraceParents \cup InvalidTraceParents}
    \cup {<<"Traceparent", HeaderValue(TraceParent("00", "0af7651916cd43dd8448eb211c80319c",
                                                   "b7ad6b7169203331", "01"), FALSE)>>}
WireHeaders == SecretHeaders \cup PlainHeaders \cup TraceHeaders

\* The header lists of at most MaxHeaders headers.
HeaderLists == UNION {[1..n -> WireHeaders] : n \in 0..MaxHeaders}

WireRequests ==
    {Wire("GET", "/users/7", Some("page=2"), uh, hl, Some("/users/{id}")) :
        uh \in {None, Some("uri.example")}, hl \in HeaderLists}

InitSpan ==
    /\ \E l \in Layers : extract_parent = l.extract_parent
    /\ InitLife
    /\ request \in WireRequests /\ made = None
    /\ event = [meta |-> EventMeta("INFO"), fields |-> <<>>] /\ emitted = None
    /\ InitNoConfig /\ InitNoHeader

\* The first step of AxumOtelService::call.
MakeSpan ==
    /\ made = None
    /\ made' = Some(make_span(Request(request), extract_parent))
    /\ UNCHANGED <<extract_parent, lifeVars, request, event, emitted,
                   fired, initVars, headerVars>>

NextSpan == MakeSpan

SpecSpan == InitSpan /\ [][NextSpan]_vars

(***************************************************************************)
(* SpecFields: on_event on an event of any fields, outside of any span.    *)
(***************************************************************************)
FieldNames == {"message", "body", "count"}
FieldValues == {Dbg("x"), Str("y"), I64("5"), U64("7"), F64("1.5"), Bool("true")}
\* The field lists of at most MaxFields fields, of different names.
FieldLists ==
    {fl \in UNION {[1..n -> FieldNames \X FieldValues] : n \in 0..MaxFields} :
        \A i, j \in 1..Len(fl) : i # j => fl[i][1] # fl[j][1]}
FieldEvents ==
    {[meta |-> EventMeta(level), fields |-> fl] :
        level \in {"INFO", "ERROR"}, fl \in FieldLists}

InitFields ==
    /\ InitIdle
    /\ request = ReqB /\ made = None
    /\ event \in FieldEvents /\ emitted = None
    /\ InitNoConfig /\ InitNoHeader

EmitEvent ==
    /\ emitted = None
    /\ emitted' = Some(on_event(event, Scope(Current(1))))
    /\ UNCHANGED <<extract_parent, lifeVars, request, made, event,
                   fired, initVars, headerVars>>

NextFields == EmitEvent

SpecFields == InitFields /\ [][NextFields]_vars

(***************************************************************************)
(* SpecNest: a thread that opens, enters, leaves and closes nested spans,  *)
(* and fires events at any depth.                                          *)
(***************************************************************************)
HandlerSpan ==
    [meta |-> HandlerSpanMeta, fields |-> HandlerSpanFields, parent_cx |-> None]
\* A span whose metadata has neither file nor module.
BareSpan ==
    [meta |-> [name |-> "bare", module |-> None, file |-> None, line |-> None],
     fields |-> << <<"late", Empty>>, <<"ok", Bool("true")>> >>, parent_cx |-> None]
NestSpans == {HandlerSpan, BareSpan, make_span(Request(ReqA), TRUE)}

\* A span is made with the current span as its parent, and entered; the
\* span of a request is made by the service, outside of any other.
OpenSpan(t, value) ==
    /\ Len(stack[t]) < 1 + MaxNest
    /\ value.meta = HttpSpanMeta => Current(t) = 0
    /\ spans' = [spans EXCEPT ![FreeId] = NewSpan(value, Current(t), 0)]
    /\ stack' = Enter(t, FreeId)
    /\ UNCHANGED <<extract_parent, ready, pc, fut, inner, ret, running, sink,
                   request, made, event, emitted,
                   fired, initVars, headerVars>>

\* The current span is left and closed: the registry frees its slot.
CloseSpan(t) ==
    /\ Current(t) # 0 /\ spans[Current(t)].owner = 0
    /\ spans' = [spans EXCEPT ![Current(t)] = FreeSlot]
    /\ stack' = Exit(t)
    /\ UNCHANGED <<extract_parent, ready, pc, fut, inner, ret, running, sink,
                   request, made, event, emitted,
                   fired, initVars, headerVars>>

\* The number of recordings on the spans of a stack.
RECURSIVE RecordsOn(_)
RecordsOn(entered) ==
    IF entered = <<>> THEN 0
    ELSE Len(spans[Head(entered)].recs) + RecordsOn(Tail(entered))

\* The fields a handler records on its current span, and their values.
HandlerRecords ==
    {<<"user.id", Str("u-17")>>, <<"http.response.status_code", U64("200")>>,
     <<"late", I64("3")>>}

\* The handler records a value on the current span (Span::record): a field
\* the span declares takes it, any other is ignored. The layer has no
\* on_record, so that nothing of the span's extensions changes.
HandlerRecord(t, rec) ==
    /\ Current(t) # 0 /\ spans[Current(t)].owner = 0
    /\ RecordsOn(stack[t]) < MaxRecords
    /\ \E i \in 1..Len(spans[Current(t)].fields) : spans[Current(t)].fields[i][1] = rec[1]
    /\ spans' = [spans EXCEPT ![Current(t)].recs = Append(@, rec)]
    /\ UNCHANGED <<extract_parent, ready, pc, fut, inner, ret, stack, running, sink,
                   request, made, event, emitted, fired, initVars, headerVars>>

NextNest ==
    \/ \E value \in NestSpans : OpenSpan(1, value)
    \/ CloseSpan(1)
    \/ \E rec \in HandlerRecords : HandlerRecord(1, rec)
    \/ \E ev \in HandlerEvents : Event(1, ev)
    \/ Export

SpecNest == Init /\ [][NextNest]_vars

(***************************************************************************)
(* SpecInit: the two initialisers of src/lib.rs under any environment, and *)
(* the sampler's decisions for the spans the service makes.                *)
(***************************************************************************)
ApiKeys == {None, Some("hcaik_01")}
MalformedEndpoints == {Some("https://api honeycomb io"), Some("http://[::1")}
Endpoints ==
    {None, Some("https://api.eu1.honeycomb.io/"), Some("http://localhost:4318")}
        \cup MalformedEndpoints
OtlpHeaders == {None, Some("x-honeycomb-team=hcaik_01")}
\* Sample rates in eighths: below 0.0, 0.0, 0.125, 0.5, 1.0 and above 1.0.
SampleRates == {0 - 8, 0, 1, 4, 8, 16}
Environments ==
    {Environment(k, e, h, sr) :
        k \in ApiKeys, e \in Endpoints, h \in OtlpHeaders, sr \in SampleRates}

\* The trace ids the tracer may give a root span.
RootTraceIds ==
    {"0af7651916cd43dd" \o d \o "448eb211c80319c" : d \in {"0", "3", "8", "f"}}
\* Requests with a sampled parent, an unsampled one, a malformed one, none.
SampleRequests ==
    {Wire("GET", "/", None, None, hl, None) :
        hl \in {<<>>} \cup
            { << <<"traceparent", HeaderValue(tp, TRUE)>> >> :
                tp \in {TraceParent("00", "0af7651916cd43dd8448eb211c80319c",
                                    "b7ad6b7169203331", "01"),
                        TraceParent("00", "0af7651916cd43ddf448eb211c80319c",
                                    "b7ad6b7169203331", "00"),
                        "garbage"} }}

InitConfig ==
    /\ \E l \in Layers : extract_parent = l.extract_parent
    /\ InitLife
    /\ request = ReqB /\ made = None
    /\ event = [meta |-> EventMeta("INFO"), fields |-> <<>>] /\ emitted = None
    /\ env \in Environments
    /\ otlp_layer = NotCalled /\ log_layer = NotCalled /\ decision = None
    /\ InitNoHeader

\* The application calls init_otlp_layer(sample_rate).
InitOtlpLayer ==
    /\ otlp_layer = NotCalled /\ log_layer.tag # "Panic"
    /\ otlp_layer' = init_otlp_layer(env, env.sample_rate)
    /\ UNCHANGED <<extract_parent, lifeVars, request, made, event, emitted, fired,
                   env, log_layer, decision, headerVars>>

\* The application calls init_otlp_log_layer(); a panic ends the process.
InitOtlpLogLayer ==
    /\ log_layer = NotCalled
    /\ log_layer' = init_otlp_log_layer(env)
    /\ UNCHANGED <<extract_parent, lifeVars, request, made, event, emitted, fired,
                   env, otlp_layer, decision, headerVars>>

\* The layer's tracer decides on the span made for a request: the parent is
\* the context make_span set, and the trace id the parent's, or a new one
\* for a root span.
ShouldSample(w, root_id) ==
    /\ otlp_layer.tag = "Some" /\ log_layer.tag # "Panic"
    /\ LET span == make_span(Request(w), extract_parent)
           parent_cx == IF span.parent_cx.tag = "Some" THEN span.parent_cx.v ELSE NoContext
           trace_id == IF parent_cx.has_span THEN parent_cx.trace_id ELSE root_id
       IN  decision' = Some([parent_cx |-> parent_cx, trace_id |-> trace_id,
                             sampled |-> should_sample(otlp_layer.v.sampler,
                                                       parent_cx, trace_id)])
    /\ UNCHANGED <<extract_parent, lifeVars, request, made, event, emitted, fired,
                   env, otlp_layer, log_layer, headerVars>>

NextInit ==
    \/ InitOtlpLayer
    \/ InitOtlpLogLayer
    \/ \E w \in SampleRequests, root_id \in RootTraceIds : ShouldSample(w, root_id)

SpecInit == InitConfig /\ [][NextInit]_vars

(***************************************************************************)
(* SpecHeader: set_tracing_header on any span context and header map. A    *)
(* trace id and a span id are 128 and 64 bits, kept as their 32 and 16     *)
(* four-bit digits, the most significant first; the trace flags are a byte.*)
(***************************************************************************)
SpanContext(trace_id, span_id, trace_flags) ==
    [trace_id |-> trace_id, span_id |-> span_id, trace_flags |-> trace_flags]

\* SpanContext::is_valid: neither id is zero.
is_valid(sc) ==
    /\ \E i \in 1..Len(sc.trace_id) : sc.trace_id[i] # 0
    /\ \E i \in 1..Len(sc.span_id) : sc.span_id[i] # 0

\* {} of a TraceId or SpanId: all of its digits, in lower-case hexadecimal.
RECURSIVE FormatHex(_)
FormatHex(digits) ==
    IF digits = <<>> THEN "" ELSE HexDigit(Head(digits)) \o FormatHex(Tail(digits))

\* {:02x} of a byte, and {:x} of it.
LowerHex02(byte) == HexDigit(byte \div 16) \o HexDigit(byte % 16)
LowerHex(byte) ==
    IF byte < 16 THEN HexDigit(byte) ELSE HexDigit(byte \div 16) \o HexDigit(byte % 16)

\* TraceId::from_hex / SpanId::from_hex, as the propagator reads an id.
from_hex(s) == [i \in 1..Len(s) |-> HexValue(SubSeq(s, i, i))]

\* HeaderMap::insert: the value replaces every value of the name, at the
\* place of the first; a new name goes last.
HeaderInsert(hm, name, value) ==
    IF \E i \in 1..Len(hm) : hm[i][1] = name
    THEN LET first == CHOOSE i \in 1..Len(hm) :
                        hm[i][1] = name /\ \A j \in 1..(i - 1) : hm[j][1] # name
             kept == [i \in 1..Len(hm) |-> IF i = first THEN <<name, value>> ELSE hm[i]]
         IN  SelectSeq(kept, LAMBDA e : e[1] # name \/ e = <<name, value>>)
    ELSE Append(hm, <<name, value>>)

\* A header whose version and flags are written without padding.
set_tracing_header_Unpadded(sc, hm) ==
    IF is_valid(sc)
    THEN HeaderInsert(hm, "traceparent",
            HeaderValue(LowerHex(0) \o "-" \o FormatHex(sc.trace_id) \o "-"
                            \o FormatHex(sc.span_id) \o "-"
                            \o LowerHex(sc.trace_flags % 2), TRUE))
    ELSE hm

\* set_tracing_header: the header map as it leaves it. The flags written
\* are trace_flags & SAMPLED, the lowest bit.
set_tracing_header(sc, hm) ==
    IF is_valid(sc)
    THEN HeaderInsert(hm, "traceparent",
            HeaderValue(LowerHex02(0) \o "-" \o FormatHex(sc.trace_id) \o "-"
                            \o FormatHex(sc.span_id) \o "-"
                            \o LowerHex02(sc.trace_flags % 2), TRUE))
    ELSE hm

TraceIdValues ==
    {[i \in 1..32 |-> 0],
     [i \in 1..32 |-> IF i = 32 THEN 1 ELSE 0],
     [i \in 1..32 |-> IF i = 1 THEN 10 ELSE 0],
     [i \in 1..32 |-> (7 * i) % 16],
     [i \in 1..32 |-> 15]}
SpanIdValues ==
    {[i \in 1..16 |-> 0],
     [i \in 1..16 |-> IF i = 16 THEN 1 ELSE 0],
     [i \in 1..16 |-> (11 * i) % 16],
     [i \in 1..16 |-> 15]}
TraceFlagValues == {0, 1, 2, 3, 255}
SpanContexts ==
    {SpanContext(tid, sid, fl) :
        tid \in TraceIdValues, sid \in SpanIdValues, fl \in TraceFlagValues}
\* The headers of a response before the call.
ResponseHeaders ==
    {<<>>,
     << <<"content-type", HeaderValue("text/html", TRUE)>> >>,
     << <<"traceparent", HeaderValue("stale", TRUE)>>,
        <<"content-type", HeaderValue("text/html", TRUE)>>,
        <<"traceparent", HeaderValue("staler", TRUE)>> >>}

InitHeader ==
    /\ InitIdle
    /\ request = ReqB /\ made = None
    /\ event = [meta |-> EventMeta("INFO"), fields |-> <<>>] /\ emitted = None
    /\ InitNoConfig
    /\ span_context \in SpanContexts
    /\ \E hm \in ResponseHeaders : response_headers = [given |-> hm, left |-> None]

SetTracingHeader ==
    /\ response_headers.left = None
    /\ response_headers' =
            [response_headers EXCEPT
                !.left = Some(set_tracing_header(span_context, response_headers.given))]
    /\ UNCHANGED <<extract_parent, lifeVars, request, made, event, emitted, fired,
                   initVars, span_context>>

NextHeader == SetTracingHeader

SpecHeader == InitHeader /\ [][NextHeader]_vars

(***************************************************************************)
(* What the claims speak of.                                               *)
(***************************************************************************)
Resolved(result) == result.tag \in {"Ok", "Err"}

\* The spans made for request r.
SpansOf(r) == {id \in SpanIds : spans[id].state # "free" /\ spans[id].owner = r}

\* The outcomes recorded on a span: a record of the response status, or a
\* record of the ERROR status followed by one of the exception message.
Outcomes(recs) ==
    Cardinality({i \in 1..Len(recs) :
        \/ recs[i][1] = "http.response.status_code"
        \/ /\ recs[i][1] = "otel.status_code"
           /\ i < Len(recs)
           /\ recs[i + 1][1] = "exception.message"})

OutcomeFields == {"http.response.status_code", "otel.status_code", "exception.message"}

\* The span of request r is entered on some thread.
Entered(r) == \E t \in Threads : \E i \in 1..Len(stack[t]) : stack[t][i] = fut[r]

(***************************************************************************)
(* C1 (as amended). Every call makes exactly one span; the outcome is      *)
(* recorded on it exactly once, by the poll that returns Ready, and not at *)
(* all as long as the future has returned Pending only: a recording never  *)
(* precedes the inner future's resolution.                                 *)
(***************************************************************************)
C1_OneSpanOneOutcomeOnceReady ==
    \A r \in Requests :
        /\ Cardinality(SpansOf(r)) = (IF pc[r] = "new" THEN 0 ELSE 1)
        /\ pc[r] # "new" =>
              /\ SpansOf(r) = {fut[r]}
              /\ Outcomes(spans[fut[r]].recs) = (IF Resolved(ret[r]) THEN 1 ELSE 0)
              /\ spans[fut[r]].recs # <<>> => Resolved(inner[r])

C1_Witness ==
    \E r \in Requests :
        pc[r] = "done" /\ Outcomes(spans[fut[r]].recs) = 1 /\ Resolved(inner[r])

\* C1 as stated: whatever the polls of a request were, exactly one outcome
\* is recorded on its span by the time its future is gone.
C1_Original_ExactlyOneOutcome ==
    \A r \in Requests :
        pc[r] = "dropped" => Outcomes(spans[fut[r]].recs) = 1

(***************************************************************************)
(* C2. While a thread executes the call of the inner service or a poll of  *)
(* the inner future for a request, that request's span is the thread's     *)
(* current span, in every poll, also one that follows a Pending; and once  *)
(* the call or the poll has returned the span is entered on no thread.     *)
(***************************************************************************)
C2_SpanEnteredExactlyWhileRunning ==
    /\ \A t \in Threads :
          running[t] # 0 =>
              /\ pc[running[t]] \in {"calling", "polling"}
              /\ Current(t) = fut[running[t]]
    /\ \A r \in Requests :
          (pc[r] \in {"calling", "polling"}) <=> (fut[r] # 0 /\ Entered(r))

C2_Witness ==
    \E t \in Threads :
        /\ running[t] # 0 /\ pc[running[t]] = "polling"
        /\ inner[running[t]] = Pending
        /\ Current(t) = fut[running[t]]
        /\ \E q \in Requests : pc[q] = "suspended" /\ ~Entered(q)

(***************************************************************************)
(* C3 (as amended). When the handler resolves with a response, its status  *)
(* is recorded as http.response.status_code, and otel.status_code is ERROR *)
(* if and only if the status is in 500..599; otherwise it stays unset.     *)
(***************************************************************************)
C3_ErrorIffServerErrorClass ==
    \A r \in Requests :
        ret[r].tag = "Ok" =>
            /\ FieldValue(spans[fut[r]], "http.response.status_code")
                    = U64(ToString(ret[r].status))
            /\ FieldValue(spans[fut[r]], "otel.status_code")
                    = (IF ret[r].status >= 500 /\ ret[r].status <= 599
                       THEN Str("ERROR") ELSE Empty)

C3_Witness ==
    \E r \in Requests :
        /\ ret[r] = Ok(503)
        /\ FieldValue(spans[fut[r]], "otel.status_code") = Str("ERROR")
        /\ FieldValue(spans[fut[r]], "http.response.status_code") = U64("503")

\* C3 as stated: ERROR if and only if the status is >= 500.
C3_Original_ErrorIffAtLeast500 ==
    \A r \in Requests :
        ret[r].tag = "Ok" =>
            ((FieldValue(spans[fut[r]], "otel.status_code") = Str("ERROR"))
                <=> ret[r].status >= 500)

(***************************************************************************)
(* C4. When the handler resolves with an error, otel.status_code is ERROR  *)
(* and exception.message ends as the message of the error's source when it *)
(* has one, and as the error's own message otherwise.                      *)
(***************************************************************************)
C4_ErrorRecordsSourceMessage ==
    \A r \in Requests :
        ret[r].tag = "Err" =>
            /\ FieldValue(spans[fut[r]], "otel.status_code") = Str("ERROR")
            /\ FieldValue(spans[fut[r]], "exception.message")
                    = Str(IF Len(ret[r].chain) >= 2 THEN ret[r].chain[2]
                          ELSE ret[r].chain[1])

C4_Witness ==
    \E r \in Requests :
        /\ ret[r] = Err(<<"top", "cause", "root">>)
        /\ FieldValue(spans[fut[r]], "exception.message") = Str("cause")

(***************************************************************************)
(* C5. ResponseFuture::poll returns what the inner future's poll returned, *)
(* Pending for Pending and the same response or error for Ready, and       *)
(* poll_ready returns what the inner service's poll_ready returned.        *)
(***************************************************************************)
C5_ReturnsInnerResultUnchanged ==
    /\ \A r \in Requests : ret[r] = inner[r]
    /\ ready.ret = ready.inner

C5_Witness ==
    /\ \E r \in Requests : ret[r].tag = "Err" /\ pc[r] = "done"
    /\ ready.ret.tag = "ReadyErr"

(***************************************************************************)
(* C6. The http.headers attribute of the span made for a request has no    *)
(* entry for a header sent as authorization or idtoken in any casing (nor  *)
(* its value), and has the entry of every other header sent.               *)
(***************************************************************************)
HeadersAttribute(span) == LastOf(span.fields, "http.headers", Empty).v

C6_SecretHeadersNeverRendered ==
    made.tag = "Some" =>
        LET attr == HeadersAttribute(made.v)
        IN  /\ ~Contains(attr, "\"authorization\": ")
            /\ ~Contains(attr, "\"idtoken\": ")
            /\ \A i \in 1..Len(request.wire) :
                  LET name == request.wire[i][1]
                      value == request.wire[i][2]
                  IN  IF ToLower(name) \in {"authorization", "idtoken"}
                      THEN /\ ~Contains(attr, "\"" \o name \o "\": ")
                           /\ ~Contains(attr, value.s)
                      ELSE Contains(attr, "\"" \o ToLower(name) \o "\": \""
                                            \o value.s \o "\",")

C6_Witness ==
    /\ made.tag = "Some"
    /\ Len(request.wire) = 2
    /\ request.wire[1][1] = "AUTHORIZATION"
    /\ request.wire[2][1] = "Proxy-Authorization"
    /\ Contains(HeadersAttribute(made.v), "\"proxy-authorization\": \"Basic-pr0xy\",")

(***************************************************************************)
(* C7. The record of an event fired inside k nested spans carries, for     *)
(* every i in 0..k-1, span.i with the description stored for the i-th span *)
(* from the outermost when it was opened, span.i.location with its stored  *)
(* location and span.i.name with its name, and no other span attribute.    *)
(***************************************************************************)
\* The values of the attributes of a record under a key.
AttributeValues(rec, key) ==
    {rec.attributes[j][2] : j \in {j \in 1..Len(rec.attributes) : rec.attributes[j][1] = key}}

SpanAttributeCount(rec) ==
    Cardinality({j \in 1..Len(rec.attributes) :
        Len(rec.attributes[j][1]) >= 5 /\ SubSeq(rec.attributes[j][1], 1, 5) = "span."})

C7_RecordCarriesTheSpanChain ==
    [][Len(sink') = Len(sink) + 1 =>
        LET rec == sink'[Len(sink')]
            k == Len(stack[1])
        IN  /\ SpanAttributeCount(rec) = 3 * k
            /\ \A i \in 0..(k - 1) :
                  LET span == spans[stack[1][i + 1]]
                      opened == on_new_span(span.meta, span.fields)
                  IN  /\ AttributeValues(rec, "span." \o ToString(i))
                            = {AnyValue("String", opened.span_str)}
                      /\ AttributeValues(rec, "span." \o ToString(i) \o ".location")
                            = {AnyValue("String", opened.location)}
                      /\ AttributeValues(rec, "span." \o ToString(i) \o ".name")
                            = {AnyValue("String", span.meta.name)}]_vars

C7_Witness ==
    /\ Len(stack[1]) = 2
    /\ spans[stack[1][1]].meta.name = "HTTP request"
    /\ spans[stack[1][2]].meta.name = "handler"
    /\ sink # <<>>
    /\ AttributeValues(sink[Len(sink)], "span.0.name") = {AnyValue("String", "HTTP request")}
    /\ AttributeValues(sink[Len(sink)], "span.1.name") = {AnyValue("String", "handler")}
    /\ AttributeValues(sink[Len(sink)], "span.1.location")
            = {AnyValue("String", "src/routes.rs:42")}

(***************************************************************************)
(* C8. The body of the record is the event's message, except that the      *)
(* value of a field named body, when the event has one, is the body        *)
(* instead.                                                                *)
(***************************************************************************)
FieldOf(ev, name) ==
    LET hits == SelectSeq(ev.fields, LAMBDA f : f[1] = name)
    IN  IF hits = <<>> THEN None ELSE Some(hits[1][2])

C8_BodyFieldTakesPrecedence ==
    emitted.tag = "Some" =>
        IF FieldOf(event, "body").tag = "Some"
        THEN emitted.v.body = Some(AnyValue("String", FieldOf(event, "body").v.v))
        ELSE FieldOf(event, "message").tag = "Some" =>
                emitted.v.body = Some(AnyValue("String", FieldOf(event, "message").v.v))

(***************************************************************************)
(* C9. With the layer that extracts the parent, the span made for a        *)
(* request whose one traceparent header is well formed has the context of  *)
(* that header as its parent, and the span of a request with no well       *)
(* formed traceparent header has the default, unsampled context; with the  *)
(* other layer no parent is set on the span whatever the headers.          *)
(***************************************************************************)
TraceParentsSent(w) ==
    SelectSeq(w.wire, LAMBDA e : ToLower(e[1]) = "traceparent")

C9_ParentFollowsLayerAndHeader ==
    made.tag = "Some" =>
        LET sent == TraceParentsSent(request)
        IN  IF ~extract_parent THEN made.v.parent_cx = None
            ELSE /\ made.v.parent_cx.tag = "Some"
                 /\ \A tid \in ValidTraceIds, sid \in ValidSpanIds, fl \in {"00", "01"} :
                        (Len(sent) = 1 /\ sent[1][2].visible
                                /\ sent[1][2].s = TraceParent("00", tid, sid, fl))
                        => made.v.parent_cx.v =
                                [has_span |-> TRUE, trace_id |-> tid, span_id |-> sid,
                                 sampled |-> (fl = "01")]
                 /\ (\A i \in 1..Len(sent) :
                        ~sent[i][2].visible \/ sent[i][2].s \in InvalidTraceParents)
                        => (made.v.parent_cx.v = NoContext /\ ~made.v.parent_cx.v.sampled)

C9_Witness ==
    /\ made.tag = "Some" /\ extract_parent
    /\ Len(TraceParentsSent(request)) = 1
    /\ made.v.parent_cx = Some([has_span |-> TRUE,
                                 trace_id |-> "0af7651916cd43dd8448eb211c80319c",
                                 span_id |-> "b7ad6b7169203331", sampled |-> TRUE])

(***************************************************************************)
(* C10. A request whose ResponseFuture is dropped before the inner future  *)
(* resolved, after any number of Pending polls, has nothing recorded on    *)
(* its span: none of the outcome fields is set.                            *)
(***************************************************************************)
C10_DroppedBeforeReadyRecordsNothing ==
    \A r \in Requests :
        (pc[r] = "dropped" /\ ~Resolved(inner[r])) =>
            /\ spans[fut[r]].recs = <<>>
            /\ \A k \in OutcomeFields : FieldValue(spans[fut[r]], k) = Empty

C10_Witness ==
    \E r \in Requests :
        /\ pc[r] = "dropped" /\ inner[r] = Pending
        /\ spans[fut[r]].state = "closed" /\ spans[fut[r]].recs = <<>>

(***************************************************************************)
(* C11. With no API credential in the environment, neither in              *)
(* HONEYCOMB_API_KEY nor among the exporter's request headers, the         *)
(* initialisers give no usable layer: init_otlp_layer returns no layer and *)
(* init_otlp_log_layer does not return one.                                *)
(***************************************************************************)
CredentialAbsent ==
    env.HONEYCOMB_API_KEY = None /\ env.OTEL_EXPORTER_OTLP_HEADERS = None

C11_NoLayerWithoutCredential ==
    CredentialAbsent => (otlp_layer.tag # "Some" /\ log_layer.tag # "Layer")

(***************************************************************************)
(* C12. With a malformed endpoint in the environment, neither initialiser  *)
(* panics: init_otlp_layer returns None, and init_otlp_log_layer ends      *)
(* without a panic and without a working layer.                            *)
(***************************************************************************)
C12_FailedBuildNeverPanics ==
    env.OTEL_EXPORTER_OTLP_ENDPOINT \in MalformedEndpoints =>
        /\ otlp_layer \in {NotCalled, None}
        /\ log_layer.tag \notin {"Panic", "Layer"}

(***************************************************************************)
(* C13. The sampler of the layer follows a sampled parent: the span of a   *)
(* request whose extracted parent is sampled is sampled whatever the rate. *)
(* A root span is sampled by the ratio rule on its trace id: never at      *)
(* rate 0.0, always at rate 1.0.                                           *)
(***************************************************************************)
C13_SamplerIsParentAware ==
    decision.tag = "Some" =>
        LET d == decision.v
        IN  /\ (d.parent_cx.has_span /\ d.parent_cx.sampled) => d.sampled
            /\ ~d.parent_cx.has_span =>
                  /\ env.sample_rate = 0 => ~d.sampled
                  /\ env.sample_rate = 8 => d.sampled
                  /\ d.sampled <=> should_sample(TraceIdRatioBased(env.sample_rate),
                                                 NoContext, d.trace_id)

C13_Witness ==
    /\ decision.tag = "Some" /\ env.sample_rate = 0
    /\ decision.v.parent_cx.has_span /\ decision.v.parent_cx.sampled
    /\ decision.v.sampled

(***************************************************************************)
(* C14. For a valid span context, the traceparent header set_tracing_header*)
(* leaves in the map is read back by the propagator as a context with the  *)
(* same trace id, the same span id and the same sampled flag; for an       *)
(* invalid span context the map is left as it was given.                   *)
(***************************************************************************)
C14_TraceparentRoundTrip ==
    response_headers.left.tag = "Some" =>
        IF is_valid(span_context)
        THEN LET cx == PropagatorExtract(CarrierOf(response_headers.left.v))
             IN  /\ cx.has_span
                 /\ from_hex(cx.trace_id) = span_context.trace_id
                 /\ from_hex(cx.span_id) = span_context.span_id
                 /\ cx.sampled = (span_context.trace_flags % 2 = 1)
                 /\ Len(SelectSeq(response_headers.left.v,
                                  LAMBDA e : e[1] = "traceparent")) = 1
        ELSE response_headers.left.v = response_headers.given

C14_Witness ==
    /\ response_headers.left.tag = "Some"
    /\ span_context.trace_id = [i \in 1..32 |-> IF i = 32 THEN 1 ELSE 0]
    /\ span_context.span_id = [i \in 1..16 |-> (11 * i) % 16]
    /\ span_context.trace_flags = 255
    /\ HeaderGet(response_headers.left.v, "traceparent") =
            Some(HeaderValue("00-00000000000000000000000000000001-b61c72d83e94fa50-01",
                             TRUE))

(***************************************************************************)
(* C15. The server.address attribute of the span made for a request is the *)
(* text of its Host header when it has one that decodes as text; else, and *)
(* also when the Host header does not decode, the host of the request URI  *)
(* when it has one; and the empty string only when it has neither.         *)
(***************************************************************************)
HostsSent(w) == SelectSeq(w.wire, LAMBDA e : ToLower(e[1]) = "host")

C15_HostHeaderElseUriHostElseEmpty ==
    made.tag = "Some" =>
        LET sent == HostsSent(request)
        IN  LastOf(made.v.fields, "server.address", Empty) =
                Str(IF sent # <<>> /\ sent[1][2].visible THEN sent[1][2].s
                    ELSE IF request.uri_host.tag = "Some" THEN request.uri_host.v
                    ELSE "")

(***************************************************************************)
(* C16. In the record of an event, the value of a field named message is   *)
(* the body, whatever its type, and is not among the attributes; every     *)
(* other field is an attribute under its own name, of the type of its      *)
(* value for a string, a bool, an f64 or an i64, and as the text of its    *)
(* Debug rendering for a value of any other type.                          *)
(***************************************************************************)
NativeType(val) ==
    CASE val.tag = "str" -> "String"
      [] val.tag = "bool" -> "Boolean"
      [] val.tag = "f64" -> "Double"
      [] val.tag = "i64" -> "Int"
      [] OTHER -> "String"

C16_MessageIsBodyOthersAttributes ==
    emitted.tag = "Some" =>
        \A i \in 1..Len(event.fields) :
            LET name == event.fields[i][1]
                val == event.fields[i][2]
            IN  IF name = "message"
                THEN /\ emitted.v.body.tag = "Some"
                     /\ emitted.v.body.v.v = val.v
                     /\ AttributeValues(emitted.v, "message") = {}
                ELSE AttributeValues(emitted.v, name) = {AnyValue(NativeType(val), val.v)}

(***************************************************************************)
(* C17. The description stored for a span when it is opened never changes  *)
(* while the span is open, whatever is recorded on the span afterwards,    *)
(* and the record of every event fired inside the span carries, as         *)
(* span.i, that description as it was rendered at open.                    *)
(***************************************************************************)
C17_DescriptionFixedAtOpen ==
    [][/\ \A id \in SpanIds :
            (spans[id].state = "open" /\ spans'[id].state = "open")
                => spans'[id].ext = spans[id].ext
       /\ Len(sink') = Len(sink) + 1 =>
            \A i \in 0..(Len(stack[1]) - 1) :
                LET span == spans[stack[1][i + 1]]
                IN  /\ span.ext = Some(on_new_span(span.meta, span.fields))
                    /\ AttributeValues(sink'[Len(sink')], "span." \o ToString(i))
                            = {AnyValue("String", span.ext.v.span_str)}]_vars

C17_Witness ==
    /\ Len(stack[1]) = 2 /\ sink # <<>>
    /\ spans[stack[1][1]].meta = HttpSpanMeta
    /\ spans[stack[1][2]].recs = << <<"late", I64("3")>> >>
    /\ AttributeValues(sink[Len(sink)], "span.0")
            = {AnyValue("String", on_new_span(HttpSpanMeta,
                                              HttpSpanFields(Request(ReqA))).span_str)}
    /\ AttributeValues(sink[Len(sink)], "span.1")
            = {AnyValue("String", "Name: 'bare', { module: '', location: 'UNKNOWN:0', ok: 'true' }")}

(***************************************************************************)
(* C18. Whatever the interleaving of the calls and polls of the requests   *)
(* on the threads: every request has a span of its own; what is recorded   *)
(* on a request's span is the outcome of that request's handler, and       *)
(* nothing as long as its handler has not resolved; and the record of an   *)
(* event carries the span of one request at most, a request that a thread  *)
(* is executing at that time, with the attributes of that request.         *)
(***************************************************************************)
Descriptions ==
    [r \in Requests |->
        on_new_span(HttpSpanMeta, HttpSpanFields(Request(RequestOf(r)))).span_str]
DescriptionOf(r) == Descriptions[r]

C19_OneRecordPerEvent ==
    /\ [](Len(sink) = fired)
    /\ [][fired' = fired + 1 =>
            /\ Len(sink') = Len(sink) + 1
            /\ SubSeq(sink', 1, Len(sink)) = sink
            /\ (Current(1) = 0) <=> (SpanAttributeCount(sink'[Len(sink')]) = 0)
            /\ Current(1) = 0 =>
                  \A j \in 1..Len(sink'[Len(sink')].attributes) :
                      sink'[Len(sink')].attributes[j][1] \in {"location", "count"}]_vars

C19_Witness ==
    /\ fired = 1 /\ Len(sink) = 1
    /\ \A id \in SpanIds : spans[id].state = "free"
    /\ SpanAttributeCount(sink[1]) = 0
    /\ sink[1].body = Some(AnyValue("String", "x"))

(***************************************************************************)
(* C20. A span is opened, then referenced by events, then closed, and is   *)
(* never open again: a closed span is entered on no thread, and the record *)
(* of an event fired after a request's span was closed carries the chain   *)
(* of a span that is open at that time, or none, and nowhere the           *)
(* description of the closed span.                                         *)
(***************************************************************************)
C20_ClosedSpanInNoLaterRecord ==
    /\ [](\A r \in Requests :
            (fut[r] # 0 /\ spans[fut[r]].state = "closed") => ~Entered(r))
    /\ [][/\ \A id \in SpanIds :
                /\ spans[id].state = "closed" => spans'[id] = spans[id]
                /\ spans[id].state = "free" => spans'[id].state \in {"free", "open"}
          /\ Len(sink') = Len(sink) + 1 =>
                LET rec == sink'[Len(sink')]
                IN  /\ \A r \in Requests :
                          (fut[r] # 0 /\ spans[fut[r]].state = "closed") =>
                              \A j \in 1..Len(rec.attributes) :
                                  rec.attributes[j][2].v # DescriptionOf(r)
                    /\ \E t \in Threads :
                          \/ Current(t) = 0 /\ SpanAttributeCount(rec) = 0
                          \/ /\ Current(t) # 0 /\ spans[Current(t)].state = "open"
                             /\ SpanAttributeCount(rec) = 3
                             /\ AttributeValues(rec, "span.0")
                                    = {AnyValue("String", spans[Current(t)].ext.v.span_str)}
         ]_vars

C20_Witness ==
    /\ pc[1] = "dropped" /\ spans[fut[1]].state = "closed"
    /\ pc[2] = "polling"
    /\ sink # <<>>
    /\ AttributeValues(sink[Len(sink)], "span.0") = {AnyValue("String", DescriptionOf(2))}
    /\ \A j \in 1..Len(sink[Len(sink)].attributes) :
            sink[Len(sink)].attributes[j][2].v # DescriptionOf(1)

(***************************************************************************)
(* C21 (as amended). A response leaves exception.message unset and an      *)
(* error leaves http.response.status_code unset; the one attribute both    *)
(* paths may write is otel.status_code, which the error path and the       *)
(* response path for a 5xx status both set to ERROR; and every attribute   *)
(* set when the span was made keeps the value it was made with.            *)
(***************************************************************************)
\* The fields recorded on the span of request r after it was made.
RecordedKeys(r) ==
    {spans[fut[r]].recs[i][1] : i \in 1..Len(spans[fut[r]].recs)}

CreationAttributes ==
    {"http.request.method", "http.route", "server.address", "http.headers",
     "user_agent.original", "url.path", "url.query", "otel.name", "otel.kind", "user.id"}

\* The fields the span of each request is made with.
CreatedFields == [r \in Requests |-> HttpSpanFields(Request(RequestOf(r)))]

\* The value each of them has when the span is made (url.query has none
\* when the request has no query).
CreatedValues ==
    [r \in Requests |-> [k \in CreationAttributes |-> LastOf(CreatedFields[r], k, Empty)]]

CreationAttributesKept(r) ==
    /\ spans[fut[r]].fields = CreatedFields[r]
    /\ \A k \in CreationAttributes :
          /\ FieldValue(spans[fut[r]], k) = CreatedValues[r][k]
          /\ k # "url.query" => CreatedValues[r][k] # Empty

C21_PathsShareOnlyTheStatus ==
    /\ \A r \in Requests :
          /\ inner[r].tag = "Ok" =>
                /\ FieldValue(spans[fut[r]], "exception.message") = Empty
                /\ RecordedKeys(r) \subseteq {"http.response.status_code", "otel.status_code"}
                /\ CreationAttributesKept(r)
          /\ inner[r].tag = "Err" =>
                /\ FieldValue(spans[fut[r]], "http.response.status_code") = Empty
                /\ RecordedKeys(r) = {"otel.status_code", "exception.message"}
                /\ CreationAttributesKept(r)
    /\ \A r, q \in Requests :
          (inner[r].tag = "Ok" /\ inner[q].tag = "Err") =>
              /\ RecordedKeys(r) \cap RecordedKeys(q) \subseteq {"otel.status_code"}
              /\ "otel.status_code" \in RecordedKeys(r) =>
                    FieldValue(spans[fut[r]], "otel.status_code")
                        = FieldValue(spans[fut[q]], "otel.status_code")

C21_Witness ==
    /\ inner[1] = Ok(200) /\ inner[2] = Err(<<"top", "cause">>)
    /\ RecordedKeys(1) = {"http.response.status_code"}
    /\ RecordedKeys(2) = {"otel.status_code", "exception.message"}
    /\ FieldValue(spans[fut[1]], "http.request.method") = Str("GET")
    /\ FieldValue(spans[fut[2]], "http.request.method") = Str("POST")
    /\ FieldValue(spans[fut[2]], "user.id") = Str("-")

\* C21 as stated: the attributes a response writes and the attributes an
\* error writes have nothing in common.
C21_Original_PathsWriteDisjointAttributes ==
    /\ \A r \in Requests :
          /\ inner[r].tag = "Ok" =>
                /\ FieldValue(spans[fut[r]], "exception.message") = Empty
                /\ CreationAttributesKept(r)
          /\ inner[r].tag = "Err" =>
                /\ FieldValue(spans[fut[r]], "http.response.status_code") = Empty
                /\ CreationAttributesKept(r)
    /\ \A r, q \in Requests :
          (inner[r].tag = "Ok" /\ inner[q].tag = "Err") =>
              RecordedKeys(r) \cap RecordedKeys(q) = {}

====
